---- MODULE Spec2Model ----
(***************************************************************************)
(* CSM.h: a bump-pointer Arena over one heap block, and Ptr_stack, a       *)
(* registry of Dyn_ptr entries whose records and payloads are carved out   *)
(* of an Arena and whose destructors run at stack_free.                    *)
(*                                                                         *)
(* Heap blocks are modelled by an identity (a positive number, 0 is NULL), *)
(* their real length and the stores made into them; a pointer into the     *)
(* arena block is [base, off].  realloc either fails, resizes in place or  *)
(* moves the block to a fresh identity.  The allocator's choices and the   *)
(* outcome of a store past the end of ptr_list are nondeterministic: such a *)
(* store either faults or lands in the memory after the array.             *)
(* size_t arithmetic is modulo 2^SIZE_BITS; the sizes given to the calls    *)
(* of Spec are small enough that no sum or product wraps, and SpecWide     *)
(* also asks a caller's arena for sizes near SIZE_MAX.                     *)
(***************************************************************************)
EXTENDS Integers, Sequences, FiniteSets, TLC

\* ---- bounds of the exploration ----
MaxCap == 50        \* largest capacity given to create_stack
MaxCalls == 2       \* calls of stack_new_ptr per run
MaxArenaCap == 4    \* largest capacity given to create_arena
MaxArenaCalls == 3  \* calls of arena_alloc / arena_realloc per run
BigSize == 520      \* a payload with 2 * size above the minimum growth

\* ---- constants of the program ----
SIZE_BITS == 16         \* width w of size_t (C99 requires at least 16)
SizeofDynPtr == 24      \* sizeof(Dyn_ptr): pointer, size_t, function pointer
SizeofPtr == 8          \* sizeof(void *): the bytes dyn_ptr->ptr = NULL stores
MinGrowth == 1024       \* minimum arena growth of stack_new_ptr

SIZE_MOD == 2 ^ SIZE_BITS

\* size_t arithmetic
SzAdd(a, b) == (a + b) % SIZE_MOD
SzMul(a, b) == (a * b) % SIZE_MOD

\* ---- pointers and values ----
NULL == [base |-> 0, off |-> 0]
Ptr(b, o) == [base |-> b, off |-> o]
NoArena == [capacity |-> 0, actual_size |-> 0, block |-> 0]   \* an Arena * that is NULL
NoBuf == [len |-> 0, writes |-> <<>>]
EmptySlice == [size |-> 0, block |-> NULL]                    \* (Arena_ptr){0, NULL}

Destructors == {"null_deallocator", "d1"}
Sizes == {0, 1, BigSize}        \* dataSize given to stack_new_ptr
Datas == {0, 1}                 \* data given to it: NULL or the caller's buffer
Caps == 0 .. MaxCap
ArenaCaps == 0 .. MaxArenaCap
ArenaSizes == 0 .. 3            \* size given to arena_alloc
Extras == 0 .. 2                \* extra_capacity given to arena_realloc
HugeSizes == {SIZE_MOD - 3, SIZE_MOD - 2, SIZE_MOD - 1}   \* sizes up to SIZE_MAX
ReallocOutcomes == {"fail", "freed", "inplace", "moved"}
MallocOutcomes == {"ok", "fail"}
UbOutcomes == {"lands", "fault"}

\* byte i of caller buffer number data
DataByte(data, i) == (data + i) % 256

\* A block's contents are the stores made into it, oldest first.  A store is
\* [off, n, data]: n bytes at offset off, copied from caller buffer data, or
\* the bytes of a null pointer when data = 0.
Store(writes, off, n, data) == Append(writes, [off |-> off, n |-> n, data |-> data])

Covers(w, o) == w.off <= o /\ o < w.off + w.n

\* the byte at offset o: that of the last store covering o, -1 when never stored
ByteAt(writes, o) ==
  LET hits == {i \in 1 .. Len(writes) : Covers(writes[i], o)} IN
  IF hits = {} THEN -1
  ELSE LET w == writes[CHOOSE i \in hits : \A j \in hits : j <= i] IN
       IF w.data = 0 THEN 0 ELSE DataByte(w.data, o - w.off)

\* the stores kept by a block resized to n bytes
RECURSIVE Trunc(_, _)
Trunc(writes, n) ==
  IF writes = <<>> THEN <<>>
  ELSE LET w == Head(writes) IN
       IF w.off >= n THEN Trunc(Tail(writes), n)
       ELSE << [w EXCEPT !.n = IF w.off + w.n > n THEN n - w.off ELSE w.n] >>
              \o Trunc(Tail(writes), n)

VARIABLES
  pc,        \* "none", "stack", "arena", "failed", "freed", "fault"
  capacity,  \* Ptr_stack.capacity
  length,    \* Ptr_stack.length
  ptr_list,  \* the entries stored at ptr_list[0 .. length-1], as a sequence
  slots,     \* number of Dyn_ptr slots malloc'ed for ptr_list
  arena,     \* the Arena record: capacity, actual_size, block
  buf,       \* the heap block arena.block points to: real length, stores made
  heap,      \* live allocations: "stack", "ptr_list", "arena", "block"
  trace,     \* destructor calls and free calls, in order
  call,      \* the last call: operation, arguments, result
  ncalls     \* allocation calls made so far

vars == <<pc, capacity, length, ptr_list, slots, arena, buf, heap, trace, call,
          ncalls>>

\* a call: its number, operation, arguments (arg: capacity, size or extra),
\* whether malloc or realloc failed in it on a request of more than 0 bytes, and
\* its result (ok, the entry index returned, the slice returned)
Call(seq, op, arg, data, oom, ok, idx, slice) ==
  [seq |-> seq, op |-> op, arg |-> arg, data |-> data, oom |-> oom, ok |-> ok,
   idx |-> idx, slice |-> slice]
NoCall == Call(0, "none", 0, 0, FALSE, FALSE, 0, EmptySlice)

\* An event of the trace.
\*   "dealloc": a destructor call; idx the entry's index, d the destructor, ptr the
\*      entry's ptr, inblock whether its bytes lie in the arena's current block
\*   "free": a call of free; what names the allocation
\*   "create_arena", "arena_alloc", "arena_realloc": a call on a caller's arena;
\*      idx the capacity, size or extra given, ptr the block of the slice returned,
\*      inblock whether the call succeeded, used the arena's actual_size after it
Ev(ev, what, idx, d, ptr, inblock, used) ==
  [ev |-> ev, what |-> what, idx |-> idx, d |-> d, ptr |-> ptr, inblock |-> inblock,
   used |-> used]
Free(what) == Ev("free", what, 0, "", NULL, FALSE, 0)

\* the allocations released by the free calls among calls
Released(calls) ==
  {calls[k].what : k \in {j \in 1 .. Len(calls) : calls[j].ev = "free"}}

Init ==
  /\ pc = "none"
  /\ capacity = 0
  /\ length = 0
  /\ ptr_list = <<>>
  /\ slots = 0
  /\ arena = NoArena
  /\ buf = NoBuf
  /\ heap = {}
  /\ trace = <<>>
  /\ call = NoCall
  /\ ncalls = 0

\* ---- malloc ----
\* malloc returns NULL when the allocator fails; malloc(0) may return NULL or a
\* unique pointer.  m is the allocator's choice; a NULL for n > 0 bytes is a failure.
MallocNull(m) == m = "fail"

\* ---- Arena ----
\* what create_arena or create_stack leaves: got are the allocations malloc gave
\* it, frees the free calls it made, live the allocations still held
Created(ok, a, b, got, frees) ==
  [ok |-> ok, arena |-> a, buf |-> b, got |-> got, frees |-> frees,
   live |-> got \ Released(frees)]

\* create_arena returning NULL without free(arena) when the block's malloc fails
create_arena_leak(cap, mRec, mBlk) ==
  IF MallocNull(mRec)
  THEN Created(FALSE, NoArena, NoBuf, {}, <<>>)
  ELSE IF MallocNull(mBlk)
  THEN Created(FALSE, NoArena, NoBuf, {"arena"}, <<>>)
  ELSE Created(TRUE, [capacity |-> cap, actual_size |-> 0, block |-> 1],
               [len |-> cap, writes |-> <<>>], {"arena", "block"}, <<>>)

\* create_arena: the Arena record, then the block; free(arena) when the block's
\* malloc returns NULL.  arena is NoArena when NULL is returned.
create_arena(cap, mRec, mBlk) ==
  IF MallocNull(mRec)
  THEN Created(FALSE, NoArena, NoBuf, {}, <<>>)
  ELSE IF MallocNull(mBlk)
  THEN Created(FALSE, NoArena, NoBuf, {"arena"}, << Free("arena") >>)
  ELSE Created(TRUE, [capacity |-> cap, actual_size |-> 0, block |-> 1],
               [len |-> cap, writes |-> <<>>], {"arena", "block"}, <<>>)

\* arena_alloc refusing a request that fills the arena exactly (>= for >)
arena_alloc_exactfit(a, size) ==
  IF a = NoArena \/ size = 0
  THEN [arena |-> a, ret |-> EmptySlice]
  ELSE IF SzAdd(a.actual_size, size) >= a.capacity
  THEN [arena |-> a, ret |-> EmptySlice]
  ELSE [arena |-> [a EXCEPT !.actual_size = SzAdd(a.actual_size, size)],
        ret |-> [size |-> size, block |-> Ptr(a.block, a.actual_size)]]

\* arena_alloc without the size == 0 test
arena_alloc_nozero(a, size) ==
  IF a = NoArena
  THEN [arena |-> a, ret |-> EmptySlice]
  ELSE IF SzAdd(a.actual_size, size) > a.capacity
  THEN [arena |-> a, ret |-> EmptySlice]
  ELSE [arena |-> [a EXCEPT !.actual_size = SzAdd(a.actual_size, size)],
        ret |-> [size |-> size, block |-> Ptr(a.block, a.actual_size)]]

\* arena_alloc: result is the arena afterwards and the Arena_ptr returned
arena_alloc(a, size) ==
  IF a = NoArena \/ size = 0
  THEN [arena |-> a, ret |-> EmptySlice]
  ELSE IF SzAdd(a.actual_size, size) > a.capacity
  THEN [arena |-> a, ret |-> EmptySlice]
  ELSE [arena |-> [a EXCEPT !.actual_size = SzAdd(a.actual_size, size)],
        ret |-> [size |-> size, block |-> Ptr(a.block, a.actual_size)]]

\* arena_realloc assigning extra to capacity (= for +=)
arena_realloc_setcap(a, b, extra, r) ==
  LET n == SzAdd(a.actual_size, extra) IN
  IF r = "fail" \/ r = "freed"
  THEN [ok |-> FALSE, arena |-> a,
        buf |-> IF r = "freed" /\ n = 0 THEN NoBuf ELSE b,
        released |-> (r = "freed" /\ n = 0)]
  ELSE [ok |-> TRUE,
        arena |-> [a EXCEPT !.block = IF r = "moved" THEN a.block + 1 ELSE a.block,
                            !.capacity = extra],
        buf |-> [len |-> n, writes |-> Trunc(b.writes, n)],
        released |-> FALSE]

\* arena_realloc asking realloc for extra bytes only
arena_realloc_extraonly(a, b, extra, r) ==
  LET n == extra IN
  IF r = "fail" \/ r = "freed"
  THEN [ok |-> FALSE, arena |-> a,
        buf |-> IF r = "freed" /\ n = 0 THEN NoBuf ELSE b,
        released |-> (r = "freed" /\ n = 0)]
  ELSE [ok |-> TRUE,
        arena |-> [a EXCEPT !.block = IF r = "moved" THEN a.block + 1 ELSE a.block,
                            !.capacity = SzAdd(a.capacity, extra)],
        buf |-> [len |-> n, writes |-> Trunc(b.writes, n)],
        released |-> FALSE]

\* arena_realloc adding extra to capacity before it tests realloc's result
arena_realloc_capfirst(a, b, extra, r) ==
  LET n == SzAdd(a.actual_size, extra) IN
  IF r = "fail" \/ r = "freed"
  THEN [ok |-> FALSE, arena |-> [a EXCEPT !.capacity = SzAdd(a.capacity, extra)],
        buf |-> IF r = "freed" /\ n = 0 THEN NoBuf ELSE b,
        released |-> (r = "freed" /\ n = 0)]
  ELSE [ok |-> TRUE,
        arena |-> [a EXCEPT !.block = IF r = "moved" THEN a.block + 1 ELSE a.block,
                            !.capacity = SzAdd(a.capacity, extra)],
        buf |-> [len |-> n, writes |-> Trunc(b.writes, n)],
        released |-> FALSE]

\* arena_realloc: realloc(block, actual_size + extra), outcome r: NULL with the
\* block kept ("fail"), NULL with the block released, which realloc may do for a
\* request of 0 bytes ("freed"), or the block resized in place or moved.
arena_realloc(a, b, extra, r) ==
  LET n == SzAdd(a.actual_size, extra) IN
  IF r = "fail" \/ r = "freed"
  THEN [ok |-> FALSE, arena |-> a,
        buf |-> IF r = "freed" /\ n = 0 THEN NoBuf ELSE b,
        released |-> (r = "freed" /\ n = 0)]
  ELSE [ok |-> TRUE,
        arena |-> [a EXCEPT !.block = IF r = "moved" THEN a.block + 1 ELSE a.block,
                            !.capacity = SzAdd(a.capacity, extra)],
        buf |-> [len |-> n, writes |-> Trunc(b.writes, n)],
        released |-> FALSE]

\* ---- Dyn_ptr and Ptr_stack ----
Entry(ptr, size, dealloc) == [ptr |-> ptr, size |-> size, dealloc |-> dealloc]

\* whether size bytes at p lie inside the block b that a points to
InBlock(p, size, a, b) == p.base = a.block /\ p.off + size <= b.len

\* create_stack: the Ptr_stack record, the ptr_list array, then the arena, with
\* the frees made when one of them is NULL.  mStk, mList, mRec, mBlk are the
\* allocator's choices for the four mallocs.
create_stack(cap, mStk, mList, mRec, mBlk) ==
  LET ar == create_arena(cap, mRec, mBlk)
      failed(got, frees) ==
        [ok |-> FALSE, capacity |-> 0, slots |-> 0, arena |-> NoArena,
         buf |-> NoBuf, frees |-> frees, live |-> got \ Released(frees)]
  IN
  IF MallocNull(mStk)
  THEN failed({}, <<>>)
  ELSE IF MallocNull(mList)
  THEN failed({"stack"}, << Free("stack") >>)
  ELSE IF ar.arena = NoArena
  THEN failed({"stack", "ptr_list"} \cup ar.got,
              ar.frees \o << Free("ptr_list"), Free("stack") >>)
  ELSE [ok |-> TRUE, capacity |-> cap,
        slots |-> SzMul(cap, SizeofDynPtr) \div SizeofDynPtr,
        arena |-> ar.arena, buf |-> ar.buf, frees |-> <<>>,
        live |-> {"stack", "ptr_list"} \cup ar.live]

\* dyn_ptr_alloc without the memcpy of data into the slice
dyn_ptr_alloc_nocopy(a, b, e, data, size) ==
  IF data = 0 \/ size = 0
  THEN [arena |-> a, buf |-> b, entry |-> e]
  ELSE LET ap == arena_alloc(a, size) IN
       IF ap.ret.block = NULL
       THEN [arena |-> a, buf |-> b, entry |-> e]
       ELSE [arena |-> ap.arena, buf |-> b,
             entry |-> [e EXCEPT !.ptr = ap.ret.block, !.size = size]]

\* dyn_ptr_alloc on entry e: the arena, the block and the entry afterwards
dyn_ptr_alloc(a, b, e, data, size) ==
  IF data = 0 \/ size = 0
  THEN [arena |-> a, buf |-> b, entry |-> e]
  ELSE LET ap == arena_alloc(a, size) IN
       IF ap.ret.block = NULL
       THEN [arena |-> a, buf |-> b, entry |-> e]
       ELSE [arena |-> ap.arena,
             buf |-> [b EXCEPT !.writes = Store(b.writes, ap.ret.block.off, size, data)],
             entry |-> [e EXCEPT !.ptr = ap.ret.block, !.size = size]]

\* the growth stack_new_ptr asks of the arena
Growth(dataSize) ==
  IF SzMul(dataSize, 2) < MinGrowth THEN MinGrowth ELSE SzMul(dataSize, 2)

\* stack_new_ptr growing the arena on every call
NeedsGrowth_always(len, cap) == TRUE

\* stack_new_ptr's test for growing the arena: length >= capacity
NeedsGrowth(len, cap) == len >= cap

\* stack_new_ptr going on after arena_realloc returned false
GivesUp_never(grow, ok) == FALSE

\* stack_new_ptr returns NULL at once when the growth it asked for failed
GivesUp(grow, ok) == grow /\ ~ok

\* stack_new_ptr from the current state.  r is realloc's outcome when the arena
\* is grown, ub the outcome of a store to ptr_list[length] past its last slot.
\* ret is the index of the entry returned, -1 for NULL; failed tells that
\* arena_realloc was called and returned false.
stack_new_ptr(data, dataSize, r, ub) ==
  LET grow == NeedsGrowth(length, capacity)
      g == arena_realloc(arena, buf, Growth(dataSize), r)
      a1 == IF grow THEN g.arena ELSE arena
      b1 == IF grow THEN g.buf ELSE buf
      ap == arena_alloc(a1, SizeofDynPtr)
      b2 == [b1 EXCEPT !.writes = Store(b1.writes, ap.ret.block.off, SizeofPtr, 0)]
      e0 == Entry(NULL, dataSize, "null_deallocator")
      dp == dyn_ptr_alloc(ap.arena, b2, e0, data, dataSize)
      same == [ret |-> -1, fault |-> FALSE, grew |-> FALSE, failed |-> grow /\ ~g.ok,
               length |-> length, ptr_list |-> ptr_list, arena |-> arena, buf |-> buf]
  IN
  IF GivesUp(grow, g.ok)
  THEN same
  ELSE IF ap.ret.block = NULL
  THEN [same EXCEPT !.grew = grow, !.arena = a1, !.buf = b1]
  ELSE IF length >= slots /\ ub = "fault"
  THEN [same EXCEPT !.fault = TRUE, !.grew = grow, !.arena = ap.arena, !.buf = b2]
  ELSE [ret |-> IF dp.entry.ptr = NULL THEN -1 ELSE length,
        fault |-> FALSE, grew |-> grow, failed |-> grow /\ ~g.ok,
        length |-> length + 1,
        ptr_list |-> Append(ptr_list, dp.entry),
        arena |-> dp.arena, buf |-> dp.buf]

\* dyn_ptr_insert_deallocator on &ptr_list[i]
dyn_ptr_insert_deallocator(list, i, dealloc) ==
  [list EXCEPT ![i + 1].dealloc = dealloc]

\* the loop of stack_free run from the last entry down to the first
DeallocCalls_reversed(list, a, b) ==
  [i \in 1 .. Len(list) |->
     Ev("dealloc", "entry", Len(list) - i, list[Len(list) + 1 - i].dealloc,
        list[Len(list) + 1 - i].ptr,
        InBlock(list[Len(list) + 1 - i].ptr, list[Len(list) + 1 - i].size, a, b), 0)]

\* stack_free: the destructor calls of the loop, in the order made
DeallocCalls(list, a, b) ==
  [i \in 1 .. Len(list) |->
     Ev("dealloc", "entry", i - 1, list[i].dealloc, list[i].ptr,
        InBlock(list[i].ptr, list[i].size, a, b), 0)]

\* arena_free that frees the Arena record and forgets the block
arena_free_calls_leak == << Free("arena") >>

\* arena_free: free(block), free(arena)
arena_free_calls == << Free("block"), Free("arena") >>

\* stack_free: the loop, free(ptr_list), arena_free, free(stack)
stack_free_calls(list, a, b) ==
  DeallocCalls(list, a, b)
    \o << Free("ptr_list") >>
    \o arena_free_calls
    \o << Free("stack") >>

\* ---- actions of the registry ----
CreateStack ==
  \E cap \in Caps, mStk \in MallocOutcomes, mList \in MallocOutcomes,
     mRec \in MallocOutcomes, mBlk \in MallocOutcomes :
    LET s == create_stack(cap, mStk, mList, mRec, mBlk) IN
    /\ pc = "none"
    /\ pc' = IF s.ok THEN "stack" ELSE "failed"
    /\ capacity' = s.capacity
    /\ slots' = s.slots
    /\ arena' = s.arena
    /\ buf' = s.buf
    /\ heap' = s.live
    /\ trace' = trace \o s.frees
    /\ call' = Call(0, "create_stack", cap, 0,
                    MallocNull(mStk) \/ MallocNull(mRec)
                      \/ (cap > 0 /\ (MallocNull(mList) \/ MallocNull(mBlk))),
                    s.ok, 0, EmptySlice)
    /\ UNCHANGED <<length, ptr_list, ncalls>>

StackNewPtr ==
  \E data \in Datas, dataSize \in Sizes, r \in ReallocOutcomes, ub \in UbOutcomes :
    LET n == stack_new_ptr(data, dataSize, r, ub) IN
    /\ pc = "stack"
    /\ ncalls < MaxCalls
    /\ ncalls' = ncalls + 1
    /\ pc' = IF n.fault THEN "fault" ELSE "stack"
    /\ length' = n.length
    /\ ptr_list' = n.ptr_list
    /\ arena' = n.arena
    /\ buf' = n.buf
    /\ call' = Call(ncalls + 1, "stack_new_ptr", dataSize, data, n.failed,
                    n.ret >= 0, n.ret, EmptySlice)
    /\ UNCHANGED <<capacity, slots, heap, trace>>

InsertDeallocator ==
  \E i \in 0 .. length - 1, d \in Destructors, ub \in UbOutcomes :
    /\ pc = "stack"
    /\ pc' = IF i >= slots /\ ub = "fault" THEN "fault" ELSE "stack"
    /\ ptr_list' = IF i >= slots /\ ub = "fault" THEN ptr_list
                   ELSE dyn_ptr_insert_deallocator(ptr_list, i, d)
    /\ call' = Call(ncalls, "dyn_ptr_insert_deallocator", 0, 0, FALSE, TRUE, i,
                    EmptySlice)
    /\ UNCHANGED <<capacity, length, slots, arena, buf, heap, trace, ncalls>>

\* dyn_ptr_insert_deallocator(NULL, d): the function tests nothing, so the store
\* dyn_ptr->dealloc = dealloc goes through a null pointer; it faults, or lands
\* in memory that belongs to none of the objects here.  The entry index -1
\* stands for NULL.
InsertDeallocatorNull ==
  \E d \in Destructors, ub \in UbOutcomes :
    /\ pc = "stack"
    /\ pc' = IF ub = "fault" THEN "fault" ELSE "stack"
    /\ call' = Call(ncalls, "dyn_ptr_insert_deallocator", 0, 0, FALSE,
                    ub # "fault", -1, EmptySlice)
    /\ UNCHANGED <<capacity, length, ptr_list, slots, arena, buf, heap, trace,
                   ncalls>>

StackFree ==
  /\ pc = "stack"
  /\ pc' = "freed"
  /\ trace' = trace \o stack_free_calls(ptr_list, arena, buf)
  /\ heap' = heap \ Released(stack_free_calls(ptr_list, arena, buf))
  /\ call' = Call(ncalls, "stack_free", 0, 0, FALSE, TRUE, 0, EmptySlice)
  /\ UNCHANGED <<capacity, length, ptr_list, slots, arena, buf, ncalls>>

\* ---- actions of a caller's own arena ----
CreateArena ==
  \E cap \in ArenaCaps, mRec \in MallocOutcomes, mBlk \in MallocOutcomes :
    LET c == create_arena(cap, mRec, mBlk) IN
    /\ pc = "none"
    /\ pc' = IF c.arena = NoArena THEN "failed" ELSE "arena"
    /\ arena' = c.arena
    /\ buf' = c.buf
    /\ heap' = c.live
    /\ trace' = IF c.arena = NoArena THEN trace \o c.frees
                ELSE Append(trace, Ev("create_arena", "", cap, "", NULL, TRUE, 0))
    /\ call' = Call(0, "create_arena", cap, 0,
                    MallocNull(mRec) \/ (cap > 0 /\ MallocNull(mBlk)),
                    c.arena # NoArena, 0, EmptySlice)
    /\ UNCHANGED <<capacity, length, ptr_list, slots, ncalls>>

\* arena_alloc; the caller then copies its buffer data (when not NULL) into the
\* slice returned, as dyn_ptr_alloc does
ArenaAlloc ==
  \E size \in ArenaSizes, data \in Datas :
    LET ap == arena_alloc(arena, size) IN
    /\ pc = "arena"
    /\ ncalls < MaxArenaCalls
    /\ ncalls' = ncalls + 1
    /\ arena' = ap.arena
    /\ buf' = IF ap.ret.block # NULL /\ data # 0
              THEN [buf EXCEPT !.writes = Store(buf.writes, ap.ret.block.off, size, data)]
              ELSE buf
    /\ trace' = Append(trace, Ev("arena_alloc", "", size, "", ap.ret.block,
                                 ap.ret.block # NULL, ap.arena.actual_size))
    /\ call' = Call(ncalls + 1, "arena_alloc", size, data, FALSE, ap.ret.block # NULL,
                    0, ap.ret)
    /\ UNCHANGED <<pc, capacity, length, ptr_list, slots, heap>>

\* arena_alloc with a size near SIZE_MAX; the caller stores nothing
ArenaAllocHuge ==
  \E size \in HugeSizes :
    LET ap == arena_alloc(arena, size) IN
    /\ pc = "arena"
    /\ ncalls < MaxArenaCalls
    /\ ncalls' = ncalls + 1
    /\ arena' = ap.arena
    /\ trace' = Append(trace, Ev("arena_alloc", "", size, "", ap.ret.block,
                                 ap.ret.block # NULL, ap.arena.actual_size))
    /\ call' = Call(ncalls + 1, "arena_alloc", size, 0, FALSE, ap.ret.block # NULL,
                    0, ap.ret)
    /\ UNCHANGED <<pc, capacity, length, ptr_list, slots, buf, heap>>

ArenaRealloc ==
  \E extra \in Extras, r \in ReallocOutcomes :
    LET g == arena_realloc(arena, buf, extra, r) IN
    /\ pc = "arena"
    /\ "block" \in heap
    /\ ncalls < MaxArenaCalls
    /\ ncalls' = ncalls + 1
    /\ arena' = g.arena
    /\ buf' = g.buf
    /\ heap' = IF g.released THEN heap \ {"block"} ELSE heap
    /\ trace' = Append(trace, Ev("arena_realloc", "", extra, "", NULL, g.ok,
                                 g.arena.actual_size))
    /\ call' = Call(ncalls + 1, "arena_realloc", extra, 0,
                    ~g.ok /\ SzAdd(arena.actual_size, extra) > 0, g.ok, 0, EmptySlice)
    /\ UNCHANGED <<pc, capacity, length, ptr_list, slots>>

ArenaFree ==
  /\ pc = "arena"
  /\ "block" \in heap
  /\ pc' = "freed"
  /\ trace' = trace \o arena_free_calls
  /\ heap' = heap \ Released(arena_free_calls)
  /\ call' = Call(ncalls, "arena_free", 0, 0, FALSE, TRUE, 0, EmptySlice)
  /\ UNCHANGED <<capacity, length, ptr_list, slots, arena, buf, ncalls>>

Next ==
  \/ CreateStack
  \/ StackNewPtr
  \/ InsertDeallocator
  \/ InsertDeallocatorNull
  \/ StackFree
  \/ CreateArena
  \/ ArenaAlloc
  \/ ArenaRealloc
  \/ ArenaFree

Spec == Init /\ [][Next]_vars

\* a caller's arena that is also asked for sizes near SIZE_MAX, where
\* actual_size + size wraps
NextWide ==
  \/ CreateArena
  \/ ArenaAlloc
  \/ ArenaAllocHuge
  \/ ArenaRealloc
  \/ ArenaFree

SpecWide == Init /\ [][NextWide]_vars

\* ---- helpers of the properties ----
IsStackNewPtrStep == call'.op = "stack_new_ptr" /\ ncalls' = ncalls + 1
Deallocs == SelectSeq(trace, LAMBDA e : e.ev = "dealloc")
RegistryFreed == pc = "freed" /\ call.op = "stack_free"

\* ---- C1 ----
\* C1: after create_stack(c) and any stack_new_ptr calls, length never exceeds
\* the number of Dyn_ptr slots allocated for ptr_list: no entry is stored past
\* the end of the array.
C1_LengthWithinSlots == pc \in {"stack", "freed"} => length <= slots

\* ---- C2 ----
\* C2: on a registry created with a small capacity (0 or 1), a stack_new_ptr call
\* with data not NULL and size > 0 in which realloc does not fail returns an
\* entry.
C2_RegisterSucceeds ==
  (pc = "stack" /\ capacity <= 1 /\ call.op = "stack_new_ptr"
     /\ call.data # 0 /\ call.arg > 0 /\ ~call.oom)
  => call.ok

\* ---- C3 ----
\* C3: stack_new_ptr with data = NULL or size = 0 returns NULL and leaves length,
\* the entries and the arena's actual_size as they were.  Stated for the calls
\* that store inside ptr_list (length < slots), so that it does not rest on C1.
C3_InvalidInputNoChange ==
  [][(IsStackNewPtrStep /\ length < slots /\ (call'.data = 0 \/ call'.arg = 0))
       => (~call'.ok /\ length' = length /\ ptr_list' = ptr_list
           /\ arena'.actual_size = arena.actual_size)]_vars

\* ---- C4 ----
\* C4: every entry ptr_list[i] with i < length has a ptr that is not NULL.
\* Stated for the entries inside ptr_list (i < slots), so that it does not rest
\* on C1.
C4_EntriesHaveData ==
  \A i \in 1 .. Len(ptr_list) : i <= slots => ptr_list[i].ptr # NULL

\* ---- C5 ----
\* C5: no destructor runs before stack_free; stack_free calls, for i = 0 ..
\* length-1 in that order and once each, the destructor held by entry i; an
\* entry gets the destructor null_deallocator when stack_new_ptr stores it.
C5_OrderInv ==
  /\ ~RegistryFreed => Deallocs = <<>>
  /\ RegistryFreed =>
       /\ Len(Deallocs) = length
       /\ \A i \in 1 .. length :
            /\ trace[i].ev = "dealloc"
            /\ trace[i].idx = i - 1
            /\ trace[i].d = ptr_list[i].dealloc
C5_DestructorsInOrder ==
  /\ []C5_OrderInv
  /\ [][(IsStackNewPtrStep /\ length' = length + 1)
          => (ptr_list'[length'].dealloc = "null_deallocator"
              /\ \A i \in 1 .. length : ptr_list'[i] = ptr_list[i])]_vars
C5_Witness ==
  /\ RegistryFreed
  /\ length = 2
  /\ ptr_list[1].dealloc = "d1"
  /\ ptr_list[2].dealloc = "null_deallocator"
  /\ Len(Deallocs) = 2

\* ---- C6 ----
\* C6: when stack_free calls the destructor of an entry that holds data, the
\* size bytes at the entry's ptr lie inside the arena's current block.
C6_DataValidAtDestructor ==
  \A k \in 1 .. Len(trace) :
    (trace[k].ev = "dealloc" /\ trace[k].ptr # NULL) => trace[k].inblock


\* ---- C7 ----
\* the arena_alloc calls on a caller's arena follow its create_arena in trace
RECURSIVE SumSizes(_)
SumSizes(k) == IF k <= 1 THEN 0 ELSE trace[k].idx + SumSizes(k - 1)
OnlyAllocs(k) == \A j \in 2 .. k : trace[j].ev = "arena_alloc" /\ trace[j].idx > 0
ArenaRun == trace # <<>> /\ trace[1].ev = "create_arena"

IsArenaAllocStep == call'.op = "arena_alloc" /\ ncalls' = ncalls + 1

\* C8: arena_alloc with size = 0, or with actual_size + size > capacity where the
\* sum does not overflow size_t, returns the empty slice and leaves actual_size,
\* capacity and the block as they were.
C8_AllocFailureNoChange ==
  [][(IsArenaAllocStep /\ arena.actual_size + call'.arg < SIZE_MOD
        /\ (call'.arg = 0 \/ arena.actual_size + call'.arg > arena.capacity))
       => (call'.slice = EmptySlice /\ ~call'.ok /\ arena' = arena /\ buf' = buf
           /\ heap' = heap)]_vars
C8_Witness ==
  /\ pc = "arena"
  /\ call.op = "arena_alloc"
  /\ call.arg > 0
  /\ call.slice = EmptySlice
  /\ arena.actual_size > 0
  /\ arena.actual_size + call.arg > arena.capacity

IsArenaReallocStep == call'.op = "arena_realloc" /\ ncalls' = ncalls + 1

C11_ReallocFailureNoChange ==
  [][IsArenaReallocStep
       => /\ call'.oom => (~call'.ok /\ "block" \in heap')
          /\ (~call'.ok /\ "block" \in heap')
               => (arena' = arena /\ buf' = buf /\ heap' = heap)]_vars
C11_Witness ==
  /\ pc = "arena"
  /\ call.op = "arena_realloc"
  /\ call.oom
  /\ call.arg > 0
  /\ arena.actual_size > 0
  /\ arena.actual_size < arena.capacity
  /\ ByteAt(buf.writes, 0) = DataByte(1, 0)

\* ---- C12 ----
\* C12: when stack_new_ptr(stack, data, size) is called with length == capacity
\* and the growth succeeds, then by the time the new entry is stored ptr_list has
\* at least length + 1 slots and the arena's capacity has grown by exactly
\* max(2 * size, 1024).
C12_GrowsEntriesAndArena ==
  [][(IsStackNewPtrStep /\ length = capacity /\ ~call'.oom /\ length' = length + 1)
       => /\ slots' >= length + 1
          /\ arena'.capacity
               = arena.capacity
                   + (IF 2 * call'.arg > MinGrowth THEN 2 * call'.arg ELSE MinGrowth)]_vars

\* ---- C13 ----
\* C13: when arena_realloc returns false in the growth step of stack_new_ptr, the
\* call returns NULL and length, the entries, and the arena's capacity,
\* actual_size, block and bytes are as before the call.
C13_GrowthFailureNoChange ==
  [][(IsStackNewPtrStep /\ call'.oom)
       => /\ ~call'.ok
          /\ pc' = pc
          /\ length' = length
          /\ ptr_list' = ptr_list
          /\ capacity' = capacity
          /\ arena' = arena
          /\ buf' = buf
          /\ heap' = heap]_vars
C13_Witness ==
  /\ pc = "stack"
  /\ call.op = "stack_new_ptr"
  /\ call.oom
  /\ call.seq = 2
  /\ length = 1
  /\ ptr_list[1].ptr # NULL
  /\ arena.actual_size = SizeofDynPtr + ptr_list[1].size

\* ---- C14 ----
\* C14: when stack_new_ptr(stack, data, size) returns an entry, the entry is
\* ptr_list[length-1] of the new state, its size is size, the size bytes at its
\* ptr lie in the arena's block and equal the size bytes of data, its destructor
\* is null_deallocator, and length has grown by exactly 1 with every earlier
\* entry as it was.
C14_ReturnedEntry ==
  [][(IsStackNewPtrStep /\ call'.ok)
       => /\ length' = length + 1
          /\ Len(ptr_list') = length'
          /\ call'.idx = length' - 1
          /\ ptr_list'[length'].size = call'.arg
          /\ ptr_list'[length'].dealloc = "null_deallocator"
          /\ ptr_list'[length'].ptr # NULL
          /\ InBlock(ptr_list'[length'].ptr, call'.arg, arena', buf')
          /\ \A i \in 0 .. call'.arg - 1 :
               ByteAt(buf'.writes, ptr_list'[length'].ptr.off + i)
                 = DataByte(call'.data, i)
          /\ \A i \in 1 .. length : ptr_list'[i] = ptr_list[i]]_vars
C14_Witness ==
  /\ pc = "stack"
  /\ call.op = "stack_new_ptr"
  /\ call.ok
  /\ call.idx = 1
  /\ length = 2
  /\ length <= slots
  /\ ptr_list[1].ptr # NULL
  /\ ptr_list[2].ptr.off = 2 * SizeofDynPtr + ptr_list[1].size
  /\ ByteAt(buf.writes, ptr_list[2].ptr.off) = DataByte(1, 0)

\* ---- C15 ----
IsInsertDeallocatorStep == call'.op = "dyn_ptr_insert_deallocator"

\* C15: dyn_ptr_insert_deallocator(entry, d) on an entry of ptr_list changes only
\* that entry's destructor: its ptr and size, the other entries, length,
\* capacity and the arena are as before and nothing is allocated or freed;
\* with a NULL entry the call changes nothing at all and the program goes on.
\* Stated for the entries inside ptr_list (index < slots), so that it does not
\* rest on C1.
C15_InsertDeallocatorFrame ==
  [][(IsInsertDeallocatorStep /\ call'.idx < slots)
       => /\ pc' = pc
          /\ length' = length
          /\ capacity' = capacity
          /\ slots' = slots
          /\ arena' = arena
          /\ buf' = buf
          /\ heap' = heap
          /\ trace' = trace
          /\ IF call'.idx = -1
             THEN ptr_list' = ptr_list
             ELSE \E d \in Destructors :
                    ptr_list' = [ptr_list EXCEPT ![call'.idx + 1].dealloc = d]]_vars

\* ---- C16 ----
FreesOf(what) == {k \in 1 .. Len(trace) : trace[k].ev = "free" /\ trace[k].what = what}

\* C16: after stack_free, whatever the registry held and whether or not a
\* destructor was ever attached, ptr_list, the arena's block, the Arena record
\* and the Ptr_stack record have each been freed exactly once, every free comes
\* after the destructor calls of all length entries, and no allocation of the
\* registry is live.
C16_TeardownReleasesAll ==
  RegistryFreed =>
    /\ heap = {}
    /\ Len(Deallocs) = length
    /\ \A what \in {"ptr_list", "block", "arena", "stack"} :
         Cardinality(FreesOf(what)) = 1
    /\ \A k \in 1 .. Len(trace) : \A j \in 1 .. Len(trace) :
         (trace[k].ev = "free" /\ trace[j].ev = "dealloc") => j < k
C16_Witness ==
  /\ RegistryFreed
  /\ length = 2
  /\ ptr_list[1].dealloc = "null_deallocator"
  /\ ptr_list[2].dealloc = "null_deallocator"
  /\ Len(trace) = 6
  /\ trace[2].ev = "dealloc"
  /\ trace[3].ev = "free"

\* ---- C17 ----
\* C17: when a malloc fails in create_arena or create_stack (the Ptr_stack
\* record, ptr_list, the Arena record or the block), the call returns NULL, and
\* whenever it returns NULL every allocation it had obtained has been freed,
\* once: none is live.
C17_FailedCreateReleasesAll ==
  /\ (call.op \in {"create_arena", "create_stack"} /\ call.oom) => pc = "failed"
  /\ pc = "failed"
       => /\ ~call.ok
          /\ arena = NoArena
          /\ heap = {}
          /\ \A what \in {"ptr_list", "block", "arena", "stack"} :
               Cardinality(FreesOf(what)) <= 1
C17_Witness ==
  /\ pc = "failed"
  /\ call.op = "create_stack"
  /\ call.oom
  /\ call.arg > 0
  /\ trace = << Free("arena"), Free("ptr_list"), Free("stack") >>

\* ---- C18 ----
\* C18: on an arena made by create_arena and used through arena_alloc and
\* arena_realloc, the real length of the block equals capacity, so that a slice
\* returned by arena_alloc lies inside the block (offset + size <= real
\* length), also after an arena_realloc made while actual_size < capacity.
C18_SliceInsideBlock ==
  (pc = "arena" /\ "block" \in heap)
    => /\ buf.len = arena.capacity
       /\ (call.op = "arena_alloc" /\ call.ok)
            => call.slice.block.off + call.slice.size <= buf.len

C20_RejectsBeyondCapacity ==
  [][(IsArenaAllocStep /\ arena.actual_size + call'.arg > arena.capacity)
       => (~call'.ok /\ call'.slice = EmptySlice
           /\ arena'.actual_size = arena.actual_size)]_vars

====
